---- MODULE Spec2Model ----
(***************************************************************************)
(* Model of the Polymarket arbitrage bot (bot.py, execution.py,            *)
(* math_engine.py): the BotState risk controller, the Gate, the execution  *)
(* client's result construction and the scan_and_execute / main loop.      *)
(*                                                                         *)
(* Units.  Money is an integer number of mills (1 dollar = 1000).  Prices  *)
(* and profit rates are integer mills per dollar (0.10 = 100).  Fractions  *)
(* of the bankroll are integer percents.  Time is an integer number of     *)
(* ticks of datetime.utcnow(); Hour ticks make timedelta(hours=1), and a   *)
(* sleep or a gateway call shorter than a tick may or may not cross one.   *)
(* Products that the code rounds to a double are rounded down to a mill.   *)
(* The counters scans_total and opportunities_found and the stamps         *)
(* start_time and last_scan feed the log lines only and are left out.      *)
(*                                                                         *)
(* Three specifications share the variables: Spec is main() with its       *)
(* cycles, ApiSpec calls the methods of BotState in any order, MathSpec    *)
(* calls one function of math_engine on arguments drawn in its Init.       *)
(***************************************************************************)
EXTENDS Integers, Sequences, FiniteSets, TLC

VARIABLES
    cfg,            \* module-level configuration of bot.py (lines 40-58)
    feed,           \* the snapshots the market-data API has to serve in this run
    client,         \* PolyClient.clob_client is set (TRUE) or None (FALSE)
    state,          \* the BotState object
    now,            \* datetime.utcnow()
    pc,             \* position of main() / scan_and_execute
    opportunities,  \* scan_and_execute: the sorted list of the cycle
    idx,            \* scan_and_execute: position of the for loop at line 486
    is_dry,         \* scan_and_execute: local is_dry of the attempt
    result,         \* scan_and_execute: result returned by the execution
    ret,            \* the value returned by the last can_trade call
    cyc,            \* what the current cycle did so far (observation only)
    args,           \* math_engine called on its own: the arguments of the call
    out             \* math_engine called on its own: the value returned

vars ==
    <<cfg, feed, client, state, now, pc, opportunities, idx, is_dry, result, ret,
      cyc, args, out>>

----------------------------------------------------------------------------
(* Bounds of the model *)

MaxTime == 2
MaxTrades == 2
MaxLegs == 3

(* Program constants *)

Hour == 2
Dollar == 10 * 100
BankrollFloor == 10
LossOnFailedPct == 10

----------------------------------------------------------------------------
(* Small helpers *)

Max(a, b) == IF a >= b THEN a ELSE b
Min(a, b) == IF a <= b THEN a ELSE b

\* round(num / den) for den > 0, as the format specs .1f and .0f round
RoundDiv(num, den) == (2 * num + den) \div (2 * den)

\* dict.get(key, default)
Get(r, k, d) == IF k \in DOMAIN r THEN r[k] ELSE d

\* Python truthiness of result.get('success')
Truthy(r, k) == k \in DOMAIN r /\ r[k] = TRUE

NoReason == [kind |-> "", a |-> 0, b |-> 0]
Reason(kind, a, b) == [kind |-> kind, a |-> a, b |-> b]

----------------------------------------------------------------------------
(* Configuration: bot.py lines 40-58 *)

BANKROLL == cfg.BANKROLL
MIN_PROFIT == cfg.MIN_PROFIT
MAX_POSITION_PCT == cfg.MAX_POSITION_PCT
GAS_COST == cfg.GAS_COST
MAX_TRADES_PER_HOUR == cfg.MAX_TRADES_PER_HOUR
DRAWDOWN_LIMIT == cfg.DRAWDOWN_LIMIT
DRY_RUN == cfg.DRY_RUN
DRY_RUN_HOURS == cfg.DRY_RUN_HOURS

\* The defaults of bot.py, in the units stated above
DefaultConfig ==
    [BANKROLL |-> 500 * Dollar, MIN_PROFIT |-> 10, MAX_POSITION_PCT |-> 10,
     GAS_COST |-> 5, MAX_TRADES_PER_HOUR |-> 3, DRAWDOWN_LIMIT |-> 15,
     DRY_RUN |-> TRUE, DRY_RUN_HOURS |-> 1]

LiveConfig == [DefaultConfig EXCEPT !.DRY_RUN = FALSE]

\* a correction that also divides a value of exactly one
NormalizeFromOne(x, one) == IF x >= one THEN x \div 100 ELSE x

\* lines 49-54: a value above 1.0 is taken as a whole-number percentage;
\* 'one' is 1.0 in the unit of x
Normalize(x, one) == IF x > one THEN x \div 100 ELSE x

\* lines 39-54: the trading parameters read from the environment 'env'
Startup(env) ==
    [DefaultConfig EXCEPT
        !.DRAWDOWN_LIMIT = Normalize(env.DRAWDOWN_LIMIT, 100),
        !.MAX_POSITION_PCT = Normalize(env.MAX_POS_PCT, 100),
        !.MIN_PROFIT = Normalize(env.MIN_PROFIT, 1000)]

----------------------------------------------------------------------------
(* BotState: bot.py lines 78-174 *)

\* BotState.__init__
BotStateInit(initial_bankroll, t) ==
    [initial_bankroll |-> initial_bankroll,
     current_bankroll |-> initial_bankroll,
     total_trades |-> 0,
     successful_trades |-> 0,
     failed_trades |-> 0,
     total_profit |-> 0,
     total_loss |-> 0,
     trades_this_hour |-> << >>,
     opportunities_executed |-> 0,
     dry_run_until |-> IF DRY_RUN THEN <<t + DRY_RUN_HOURS * Hour>> ELSE << >>,
     halted |-> FALSE,
     halt_reason |-> NoReason,
     trade_log |-> << >>]

\* BotState.is_dry_run
is_dry_run(s, t) == s.dry_run_until # << >> /\ t < s.dry_run_until[1]

\* BotState.drawdown, as the fraction num / den with den > 0
drawdown(s) ==
    IF s.initial_bankroll = 0
    THEN [num |-> 0, den |-> 1]
    ELSE [num |-> s.initial_bankroll - s.current_bankroll,
          den |-> s.initial_bankroll]

\* drawdown >= limit with the comparison slipped to >
DrawdownAbove(s, limit) == drawdown(s).num * 100 > limit * drawdown(s).den

\* drawdown >= limit, the limit a percent
DrawdownAtLeast(s, limit) == drawdown(s).num * 100 >= limit * drawdown(s).den

\* f"{self.drawdown*100:.1f}", in tenths of a percent
DrawdownTenths(s) == RoundDiv(drawdown(s).num * 1000, drawdown(s).den)

\* a window that is never pruned
KeepAll(s, t) == s.trades_this_hour

\* BotState.trades_in_last_hour: the list after the pruning assignment
PrunedWindow(s, t) ==
    LET cutoff == t - Hour
        keep(x) == x > cutoff
    IN  SelectSeq(s.trades_this_hour, keep)

trades_in_last_hour(s, t) == Len(PrunedWindow(s, t))

\* the cap compared with > instead of >=
RateLimitedAbove(count) == count > MAX_TRADES_PER_HOUR

\* line 138: the hourly cap is reached
RateLimited(count) == count >= MAX_TRADES_PER_HOUR

\* lines 130-131
HaltedDenial(s) ==
    [state |-> s, allowed |-> FALSE, prefix |-> "HALTED: ", reason |-> s.halt_reason]

\* the checks of an active controller with the bankroll floor looked at
\* before the hourly rate
ActiveCheckFloorFirst(s, t) ==
    IF DrawdownAtLeast(s, DRAWDOWN_LIMIT)
    THEN LET r == Reason("Drawdown >=", DrawdownTenths(s), DRAWDOWN_LIMIT)
         IN  [state |-> [s EXCEPT !.halted = TRUE, !.halt_reason = r],
              allowed |-> FALSE, prefix |-> "", reason |-> r]
    ELSE IF s.current_bankroll < BankrollFloor * Dollar
    THEN LET r == Reason("Bankroll below $10", 0, 0)
         IN  [state |-> [s EXCEPT !.halted = TRUE, !.halt_reason = r],
              allowed |-> FALSE, prefix |-> "", reason |-> r]
    ELSE LET p == [s EXCEPT !.trades_this_hour = PrunedWindow(s, t)]
         IN  IF RateLimited(trades_in_last_hour(s, t))
             THEN [state |-> p, allowed |-> FALSE, prefix |-> "",
                   reason |-> Reason("Rate limit", trades_in_last_hour(p, t),
                                     MAX_TRADES_PER_HOUR)]
             ELSE [state |-> p, allowed |-> TRUE, prefix |-> "",
                   reason |-> Reason("OK", 0, 0)]

\* lines 133-146: the checks of an active controller
ActiveCheck(s, t) ==
    IF DrawdownAtLeast(s, DRAWDOWN_LIMIT)
    THEN LET r == Reason("Drawdown >=", DrawdownTenths(s), DRAWDOWN_LIMIT)
         IN  [state |-> [s EXCEPT !.halted = TRUE, !.halt_reason = r],
              allowed |-> FALSE, prefix |-> "", reason |-> r]
    ELSE LET p == [s EXCEPT !.trades_this_hour = PrunedWindow(s, t)]
         IN  IF RateLimited(trades_in_last_hour(s, t))
             THEN [state |-> p, allowed |-> FALSE, prefix |-> "",
                   reason |-> Reason("Rate limit", trades_in_last_hour(p, t),
                                     MAX_TRADES_PER_HOUR)]
             ELSE IF p.current_bankroll < BankrollFloor * Dollar
             THEN LET r == Reason("Bankroll below $10", 0, 0)
                  IN  [state |-> [p EXCEPT !.halted = TRUE, !.halt_reason = r],
                       allowed |-> FALSE, prefix |-> "", reason |-> r]
             ELSE [state |-> p, allowed |-> TRUE, prefix |-> "",
                   reason |-> Reason("OK", 0, 0)]

\* a controller that looks at the limits again although it is halted
can_trade_rearm(s, t) ==
    IF s.halted /\ DrawdownAtLeast(s, DRAWDOWN_LIMIT)
    THEN HaltedDenial(s)
    ELSE ActiveCheck(s, t)

\* BotState.can_trade: the object after the call, and the returned tuple
can_trade(s, t) == IF s.halted THEN HaltedDenial(s) ELSE ActiveCheck(s, t)

\* the whole attempted cost booked as the loss
LossOfWhole(r) == Get(r, "total_cost", 0)

\* result.get('total_cost', 0) * 0.1
LossOf(r) == (Get(r, "total_cost", 0) * LossOnFailedPct) \div 100

\* lines 165-174: the TradeRecord of a result
TradeRecord(r, t) ==
    [time |-> t,
     market |-> Get(r, "market", "Unknown"),
     type |-> Get(r, "type", ""),
     success |-> Get(r, "success", FALSE),
     profit |-> Get(r, "expected_profit", 0),
     cost |-> Get(r, "total_cost", 0),
     dry_run |-> Get(r, "dry_run", FALSE),
     reason |-> Get(r, "reason", "")]

\* a log that keeps the latest record only
LoggedLatest(log, entry) == <<entry>>

\* line 165: self.trade_log.append
Logged(log, entry) == Append(log, entry)

\* BotState.record_trade
record_trade(s, r, t) ==
    LET counted == [s EXCEPT !.total_trades = @ + 1,
                             !.trades_this_hour = Append(@, t)]
        booked ==
            IF Truthy(r, "success")
            THEN LET profit == Get(r, "expected_profit", 0)
                 IN  [counted EXCEPT !.successful_trades = @ + 1,
                                     !.total_profit = @ + Max(profit, 0),
                                     !.current_bankroll = @ + profit]
            ELSE LET loss == LossOf(r)
                 IN  [counted EXCEPT !.failed_trades = @ + 1,
                                     !.total_loss = @ + loss,
                                     !.current_bankroll = @ - loss]
    IN  [booked EXCEPT !.trade_log = Logged(@, TradeRecord(r, t))]

----------------------------------------------------------------------------
(* math_engine.py *)

\* quotient and remainder of a * b by c, for a, b >= 0 and c > 0, taking a
\* ten bits at a time so that the product a * b is never formed
RECURSIVE MulQR(_, _, _)
MulQR(a, b, c) ==
    IF a = 0 THEN [q |-> 0, r |-> 0]
    ELSE LET h == MulQR(a \div 1024, b, c)
             rest == 1024 * h.r + (a % 1024) * b
         IN  [q |-> 1024 * h.q + rest \div c, r |-> rest % c]

\* floor(a * b / c) for a, b >= 0 and c > 0
MulDiv(a, b, c) == MulQR(a, b, c).q

RECURSIVE SumSeq(_)
SumSeq(q) == IF q = << >> THEN 0 ELSE Head(q) + SumSeq(Tail(q))

NoAnalysis == [type |-> "None"]

\* analyze_market: the fields the pipeline reads (mills per dollar)
analyze_market(prices) ==
    LET n == Len(prices)
        yes_sum == SumSeq(prices)
        deviation == IF yes_sum >= 1000 THEN yes_sum - 1000 ELSE 1000 - yes_sum
    IN  IF n < 2 THEN NoAnalysis
        ELSE IF deviation < 10 THEN NoAnalysis
        ELSE IF yes_sum < 990
        THEN [n |-> n, yes_sum |-> yes_sum, deviation |-> deviation,
              type |-> "buy_all_yes", raw_profit |-> 1000 - yes_sum]
        ELSE IF yes_sum > 1010
        THEN [n |-> n, yes_sum |-> yes_sum, deviation |-> deviation,
              type |-> "buy_all_no", raw_profit |-> yes_sum - 1000]
        ELSE NoAnalysis

\* a position that is not capped
Uncapped(position, cap) == position

\* line 127: position = min(position, max_frac * bankroll)
Capped(position, cap) == Min(position, cap)

Abs(x) == IF x >= 0 THEN x ELSE 0 - x

\* a sizer that takes the size of the expected value, whatever its sign
kelly_position_unsigned(profit_pct, bankroll, exec_prob, max_frac) ==
    LET ev_per_dollar == exec_prob * profit_pct - (100 - exec_prob) * 50
    IN  IF profit_pct <= 0 \/ exec_prob <= 0 THEN 0
        ELSE Capped(MulDiv(bankroll, Abs(ev_per_dollar), 200 * profit_pct),
                    MulDiv(bankroll, max_frac, 100))

\* kelly_position: exec_prob and max_frac in percent, loss_on_fail = 0.05
kelly_position(profit_pct, bankroll, exec_prob, max_frac) ==
    LET ev_per_dollar == exec_prob * profit_pct - (100 - exec_prob) * 50
        \* f = ev_per_dollar / profit_pct * 0.5, as ev_per_dollar / (200 * profit_pct)
        uncapped == MulDiv(bankroll, Max(ev_per_dollar, 0), 200 * profit_pct)
        cap == MulDiv(bankroll, max_frac, 100)
    IN  IF profit_pct <= 0 \/ exec_prob <= 0 THEN 0
        ELSE IF ev_per_dollar <= 0 THEN 0
        ELSE Capped(uncapped, cap)

Reject(kind) ==
    [execute |-> FALSE, reason |-> kind, position_size |-> 0, expected_profit |-> 0]

\* a Gate that decides on the guaranteed-profit diagnostic
GateProfitGuaranteed(opp) == Get(opp, "guaranteed_profit", 0)

\* line 144: profit = opp['raw_profit']
GateProfit(opp) == opp.raw_profit

\* a floor that only turns away an empty position
TooSmallIfNone(position) == position <= 0

\* line 153: position < 1.0
TooSmall(position) == position < Dollar

\* the share compared with >= instead of >
GasTooLargeOrEqual(gas_cost, position, profit) ==
    10000 * gas_cost >= 3 * position * profit

\* line 159: gas_cost / expected_profit > 0.30, expected_profit = position * profit
GasTooLarge(gas_cost, position, profit) ==
    10000 * gas_cost > 3 * position * profit

Accept(position, expected_profit, gas_cost) ==
    [execute |-> TRUE, reason |-> "Profit after gas",
     position_size |-> position,
     expected_profit |-> expected_profit - gas_cost]

\* a Gate that sizes the position before it looks at the profit threshold
should_execute_size_first(opp, bankroll, min_profit, gas_cost, max_position_pct) ==
    LET profit == GateProfit(opp)
        position == kelly_position(profit, bankroll, 95, max_position_pct)
        expected_profit == MulDiv(position, profit, 1000)
    IN  IF TooSmall(position) THEN Reject("Kelly size too small")
        ELSE IF profit < min_profit THEN Reject("Profit < min")
        ELSE IF GasTooLarge(gas_cost, position, profit)
        THEN Reject("Gas share of profit")
        ELSE Accept(position, expected_profit, gas_cost)

\* should_execute
should_execute(opp, bankroll, min_profit, gas_cost, max_position_pct) ==
    LET profit == GateProfit(opp)
        position == kelly_position(profit, bankroll, 95, max_position_pct)
        expected_profit == MulDiv(position, profit, 1000)
    IN  IF profit < min_profit THEN Reject("Profit < min")
        ELSE IF TooSmall(position) THEN Reject("Kelly size too small")
        ELSE IF GasTooLarge(gas_cost, position, profit)
        THEN Reject("Gas share of profit")
        ELSE Accept(position, expected_profit, gas_cost)

----------------------------------------------------------------------------
(* execution.py: what execute_buy_all_yes / execute_buy_all_no return *)

HasEmpty(ids) == \E i \in DOMAIN ids : ids[i] = ""

\* a client that reports every failure with the one reason
FillReasonGeneric(type, n_filled, n) ==
    LET legs == IF type = "buy_all_no" THEN "NO legs" ELSE "legs"
    IN  IF n_filled = n THEN "All " \o legs \o " filled"
        ELSE "All " \o legs \o " rejected/failed"

\* lines 242-249 / 341-348: result['reason'] after the fills are counted
FillReason(type, n_filled, n) ==
    LET legs == IF type = "buy_all_no" THEN "NO legs" ELSE "legs"
    IN  IF n_filled = n THEN "All " \o legs \o " filled"
        ELSE IF n_filled > 0 THEN "PARTIAL: RISK EXPOSURE"
        ELSE "All " \o legs \o " rejected/failed"

\* result['success'] and result['reason'] after the fills are counted
Filled(base, n_filled) ==
    LET n == base.n_orders
        r == FillReason(base.type, n_filled, n)
    IN  [x \in DOMAIN base \cup {"n_filled", "reason"} |->
            IF x = "n_filled" THEN n_filled
            ELSE IF x = "reason" THEN r
            ELSE IF x = "success" THEN n_filled = n
            ELSE base[x]]

DryRunResult(base) ==
    [x \in DOMAIN base \cup {"reason"} |->
        IF x = "reason" THEN "DRY RUN"
        ELSE IF x = "success" THEN TRUE
        ELSE base[x]]

\* the dict built at lines 189-195 / 289-295
BaseResult(type, market, position_size, expected_profit, dry_run) ==
    [success |-> FALSE, type |-> type, market |-> market.question,
     n_orders |-> Len(market.yes_prices), total_cost |-> position_size,
     expected_profit |-> expected_profit, yes_sum |-> SumSeq(market.yes_prices),
     dry_run |-> dry_run]

\* every dict the call can return; a live call's fills are the gateway's choice
Outcomes(base, dry_run) ==
    IF dry_run THEN {DryRunResult(base)}
    ELSE {Filled(base, k) : k \in 0..base.n_orders}

\* the call ends in an exception instead of a returned dict
Raised == [raised |-> TRUE]

\* lines 177-187: the loop returns at the first leg without a token id and
\* raises IndexError at the first leg without an entry in market['outcomes']
OrdersBuilt(market, ids) ==
    LET n == Len(market.yes_prices)
        n_outcomes == Get(market, "n_outcomes", n)
        bad(i) == ids[i] = "" \/ i > n_outcomes
        first == IF \E i \in 1..n : bad(i)
                 THEN CHOOSE i \in 1..n : bad(i) /\ \A j \in 1..(i - 1) : ~bad(j)
                 ELSE 0
    IN  IF first = 0 THEN "built"
        ELSE IF ids[first] = "" THEN "missing"
        ELSE "raised"

execute_buy_all_yes(market, position_size, dry_run) ==
    LET yes_sum == SumSeq(market.yes_prices)
        expected_profit == MulDiv(position_size, 1000 - yes_sum, 1000)
    IN  IF ~client /\ ~dry_run
        THEN {[success |-> FALSE, reason |-> "No CLOB client"]}
        ELSE IF OrdersBuilt(market, market.token_ids_yes) = "missing"
        THEN {[success |-> FALSE, reason |-> "Missing YES token ID"]}
        ELSE IF OrdersBuilt(market, market.token_ids_yes) = "raised"
        THEN {Raised}
        ELSE Outcomes(BaseResult("buy_all_yes", market, position_size,
                                 expected_profit, dry_run), dry_run)

\* the profit of a YES purchase, position_size * (1 - yes_sum), taken for
\* a NO purchase, where yes_sum > 1
ProfitOfNoAsYes(position_size, yes_sum, no_sum) ==
    0 - MulDiv(position_size, yes_sum - 1000, 1000)

\* line 275: position_size * (yes_sum - 1.0) / no_sum
ProfitOfNo(position_size, yes_sum, no_sum) ==
    MulDiv(position_size, yes_sum - 1000, no_sum)

execute_buy_all_no(market, position_size, dry_run) ==
    LET n == Len(market.yes_prices)
        yes_sum == SumSeq(market.yes_prices)
        no_sum == n * 1000 - yes_sum
        expected_profit == ProfitOfNo(position_size, yes_sum, no_sum)
    IN  IF ~client /\ ~dry_run
        THEN {[success |-> FALSE, reason |-> "No CLOB client"]}
        ELSE IF OrdersBuilt(market, market.token_ids_no) = "missing"
        THEN {[success |-> FALSE, reason |-> "Missing NO token ID"]}
        ELSE IF OrdersBuilt(market, market.token_ids_no) = "raised"
        THEN {Raised}
        ELSE Outcomes(BaseResult("buy_all_no", market, position_size,
                                 expected_profit, dry_run), dry_run)

----------------------------------------------------------------------------
(* scan_and_execute: bot.py lines 197-524 *)

Ids(a, b, c) == <<a, b, c>>

\* the price of a leg that float() cannot convert
NotANumber == 0 - 999

\* 0 < p < 1
ValidPrice(p) == p > 0 /\ p < 1000

AllValid(prices) == \A i \in DOMAIN prices : ValidPrice(prices[i])

\* a leg count check that lets two legs through
TooFewLegsForPair(prices) == Len(prices) < 2

\* lines 234 and 428: fewer than 3 legs
TooFewLegs(prices) == Len(prices) < 3

\* an event taken as mutually exclusive whatever its flags
IsNegRiskAssumed(ev) == TRUE

\* lines 263-270: negRisk of the event or of one of its markets
IsNegRisk(ev) == ev.neg_risk \/ Get(ev, "market_neg_risk", FALSE)

\* the snapshot makes the scan raise: float() at line 323 for an event that
\* passed the leg count and negRisk filters, float() in parse_market
RaisesInScan(x) ==
    /\ \E i \in DOMAIN x.yes_prices : x.yes_prices[i] = NotANumber
    /\ x.source = "event" => (~TooFewLegs(x.yes_prices) /\ IsNegRisk(x))

Raises(batch) == \E i \in DOMAIN batch : RaisesInScan(batch[i])

Questions(batch) == {batch[i].question : i \in DOMAIN batch}

\* Normalized snapshots the market-data source can return in a cycle
Snapshots ==
    { [source |-> "event", question |-> "E1", neg_risk |-> TRUE,
       yes_prices |-> <<300, 300, 300>>,
       token_ids_yes |-> Ids("y1", "y2", "y3"),
       token_ids_no |-> Ids("n1", "n2", "n3")],
      [source |-> "market", question |-> "K1", neg_risk |-> FALSE,
       yes_prices |-> <<400, 350, 350>>,
       token_ids_yes |-> Ids("y1", "y2", "y3"),
       token_ids_no |-> Ids("n1", "n2", "n3")],
      [source |-> "market", question |-> "K2", neg_risk |-> FALSE,
       yes_prices |-> <<320, 320, 330>>,
       token_ids_yes |-> Ids("", "", ""),
       token_ids_no |-> Ids("", "", "")],
      [source |-> "market", question |-> "K3", neg_risk |-> FALSE,
       yes_prices |-> <<600, 600, 600>>,
       token_ids_yes |-> Ids("y1", "y2", "y3"),
       token_ids_no |-> Ids("n1", "n2", "n3")],
      [source |-> "market", question |-> "K4", neg_risk |-> FALSE,
       yes_prices |-> <<350, 400, 350>>,
       token_ids_yes |-> Ids("y1", "y2", "y3"),
       token_ids_no |-> Ids("n1", "n2", "n3")],
      \* an event one of whose legs has a price that is no number
      [source |-> "event", question |-> "E2", neg_risk |-> TRUE,
       yes_prices |-> <<NotANumber, 300, 300>>,
       token_ids_yes |-> Ids("y1", "y2", "y3"),
       token_ids_no |-> Ids("n1", "n2", "n3")],
      \* an event that no negRisk flag marks as mutually exclusive
      [source |-> "event", question |-> "E3", neg_risk |-> FALSE,
       yes_prices |-> <<300, 300, 300>>,
       token_ids_yes |-> Ids("y1", "y2", "y3"),
       token_ids_no |-> Ids("n1", "n2", "n3")],
      \* an event whose markets carry the negRisk flag the event lacks
      [source |-> "event", question |-> "E6", neg_risk |-> FALSE,
       market_neg_risk |-> TRUE,
       yes_prices |-> <<300, 300, 300>>,
       token_ids_yes |-> Ids("y1", "y2", "y3"),
       token_ids_no |-> Ids("n1", "n2", "n3")],
      \* an event one of whose legs has a price outside (0, 1)
      [source |-> "event", question |-> "E4", neg_risk |-> TRUE,
       yes_prices |-> <<1000, 300, 300>>,
       token_ids_yes |-> Ids("y1", "y2", "y3"),
       token_ids_no |-> Ids("n1", "n2", "n3")],
      \* an event and a market of two legs
      [source |-> "event", question |-> "E5", neg_risk |-> TRUE,
       yes_prices |-> <<400, 400>>,
       token_ids_yes |-> <<"y1", "y2">>,
       token_ids_no |-> <<"n1", "n2">>],
      [source |-> "market", question |-> "K5", neg_risk |-> FALSE,
       yes_prices |-> <<400, 400>>,
       token_ids_yes |-> <<"y1", "y2">>,
       token_ids_no |-> <<"n1", "n2">>],
      \* a market whose 'outcomes' list is one shorter than its prices
      [source |-> "market", question |-> "K6", neg_risk |-> FALSE,
       yes_prices |-> <<300, 300, 300>>, n_outcomes |-> 2,
       token_ids_yes |-> Ids("y1", "y2", "y3"),
       token_ids_no |-> Ids("n1", "n2", "n3")] }

Named(names) == {x \in Snapshots : x.question \in names}

\* a batch lists some of the snapshots of the feed, each once, in any order
Batches ==
    {b \in UNION {[1..n -> feed] : n \in 0..Cardinality(feed)} :
        \A i, j \in DOMAIN b : b[i] = b[j] => i = j}

Opp(snap, analysis, bankroll) ==
    [market |-> snap, analysis |-> analysis,
     exec_check |-> should_execute(analysis, bankroll, MIN_PROFIT, GAS_COST,
                                   MAX_POSITION_PCT),
     source |-> snap.source]

\* Strategy 1, lines 232-413: the opportunities one event appends
EventOpportunity(ev, bankroll) ==
    LET yes_sum == SumSeq(ev.yes_prices)
        deviation == IF yes_sum >= 1000 THEN yes_sum - 1000 ELSE 1000 - yes_sum
        analysis == analyze_market(ev.yes_prices)
    IN  IF TooFewLegs(ev.yes_prices) THEN << >>
        ELSE IF ~IsNegRisk(ev) THEN << >>
        ELSE IF ~AllValid(ev.yes_prices) THEN << >>
        ELSE IF HasEmpty(ev.token_ids_yes) THEN << >>
        ELSE IF deviation < 10 THEN << >>
        ELSE IF yes_sum > 1500 \/ yes_sum < 500 THEN << >>
        ELSE IF yes_sum >= 990 /\ yes_sum <= 1010 THEN << >>
        ELSE IF yes_sum > 1010 /\ HasEmpty(ev.token_ids_no) THEN << >>
        ELSE <<Opp(ev, analysis, bankroll)>>

\* Strategy 2, lines 418-448: the opportunities one market appends
MarketOpportunity(m, bankroll) ==
    LET analysis == analyze_market(m.yes_prices)
    IN  IF Len(m.yes_prices) < 2 \/ ~AllValid(m.yes_prices) THEN << >>
        ELSE IF TooFewLegs(m.yes_prices) THEN << >>
        ELSE IF analysis = NoAnalysis THEN << >>
        ELSE <<Opp(m, analysis, bankroll)>>

RECURSIVE Collect(_, _, _)
Collect(batch, source, bankroll) ==
    IF batch = << >> THEN << >>
    ELSE LET x == Head(batch)
             here == IF x.source # source THEN << >>
                     ELSE IF source = "event" THEN EventOpportunity(x, bankroll)
                     ELSE MarketOpportunity(x, bankroll)
         IN  here \o Collect(Tail(batch), source, bankroll)

\* a sort that puts the later of two equal profits first
RECURSIVE InsertDescLater(_, _)
InsertDescLater(sorted, o) ==
    IF sorted = << >> THEN <<o>>
    ELSE IF Head(sorted).analysis.raw_profit > o.analysis.raw_profit
         THEN <<Head(sorted)>> \o InsertDescLater(Tail(sorted), o)
         ELSE <<o>> \o sorted

\* list.sort(key=raw_profit, reverse=True): stable, descending
RECURSIVE InsertDesc(_, _)
InsertDesc(sorted, o) ==
    IF sorted = << >> THEN <<o>>
    ELSE IF Head(sorted).analysis.raw_profit >= o.analysis.raw_profit
         THEN <<Head(sorted)>> \o InsertDesc(Tail(sorted), o)
         ELSE <<o>> \o sorted

RECURSIVE SortByProfit(_)
SortByProfit(q) ==
    IF q = << >> THEN << >>
    ELSE InsertDesc(SortByProfit(SubSeq(q, 1, Len(q) - 1)), q[Len(q)])

\* the opportunities list a batch leaves at line 468: events, then markets
Ranked(batch, bankroll) ==
    SortByProfit(Collect(batch, "event", bankroll)
                 \o Collect(batch, "market", bankroll))

----------------------------------------------------------------------------
(* The program: main() of bot.py, one step per statement group *)

NoResult == [none |-> TRUE]
NoCall == [fn |-> "none"]
NoRet == [allowed |-> FALSE, prefix |-> "", reason |-> NoReason]
NewCycle ==
    [asked |-> FALSE, permit |-> FALSE, throttled |-> FALSE,
     dispatched |-> 0, recorded |-> 0, fetched |-> {}, error |-> FALSE]

\* the observation of one can_trade call
Asked(c) ==
    [cyc EXCEPT !.asked = TRUE, !.permit = c.allowed,
                !.throttled = @ \/ c.reason.kind = "Rate limit"]

Returned(c) == [allowed |-> c.allowed, prefix |-> c.prefix, reason |-> c.reason]

Profile(c, k, names) == [cfg |-> c, client |-> k, feed |-> Named(names)]

\* the environments, clients and market data the bot is started with
Profiles ==
    { Profile(DefaultConfig, TRUE, {"E1", "K1"}),
      Profile(LiveConfig, TRUE, {"E1", "K1"}),
      Profile([LiveConfig EXCEPT !.MAX_TRADES_PER_HOUR = 0], TRUE, {"E1"}),
      Profile([LiveConfig EXCEPT !.MAX_TRADES_PER_HOUR = 1], TRUE, {"E1", "K2"}),
      Profile([LiveConfig EXCEPT !.MAX_TRADES_PER_HOUR = 1], TRUE, {"K1", "K3", "K4"}),
      Profile([LiveConfig EXCEPT !.DRAWDOWN_LIMIT = 1, !.MIN_PROFIT = 50], TRUE,
              {"E1", "K2"}),
      Profile([LiveConfig EXCEPT !.BANKROLL = 10050], TRUE, {"E1"}),
      Profile([LiveConfig EXCEPT !.BANKROLL = 10050, !.MAX_POSITION_PCT = 100], TRUE,
              {"E1", "K1"}),
      Profile(LiveConfig, FALSE, {"E1"}),
      Profile([DefaultConfig EXCEPT !.MAX_TRADES_PER_HOUR = 1], TRUE, {"K2"}),
      Profile([LiveConfig EXCEPT !.MAX_TRADES_PER_HOUR = 1], TRUE, {"E1", "E2"}),
      Profile([LiveConfig EXCEPT !.MAX_TRADES_PER_HOUR = 1], TRUE, {"E1", "K6"}),
      Profile([LiveConfig EXCEPT !.MAX_TRADES_PER_HOUR = 1], TRUE,
              {"E3", "E4", "E6", "K5"}),
      Profile([LiveConfig EXCEPT !.MAX_TRADES_PER_HOUR = 1], TRUE, {"E5"}) }

Init ==
    /\ \E p \in Profiles : cfg = p.cfg /\ client = p.client /\ feed = p.feed
    /\ now = 0
    /\ state = BotStateInit(BANKROLL, 0)
    /\ pc = "scan"
    /\ opportunities = << >>
    /\ idx = 0
    /\ is_dry = FALSE
    /\ result = NoResult
    /\ ret = NoRet
    /\ cyc = NewCycle
    /\ args = NoCall
    /\ out = NoCall

\* a main loop that an exception ends
AfterExceptionExit == "exit"

\* lines 577-579: main logs the exception of a cycle and goes on
AfterException == "post"

\* lines 206-470: fetch, analyze, gate and rank; return when nothing was found
Scan ==
    /\ pc = "scan"
    /\ \E batch \in Batches :
          LET ops == Ranked(batch, state.current_bankroll)
          IN  IF Raises(batch)
              THEN \* the exception leaves scan_and_execute for main's except
                   /\ opportunities' = << >>
                   /\ pc' = AfterException
                   /\ cyc' = [cyc EXCEPT !.fetched = Questions(batch), !.error = TRUE]
              ELSE /\ opportunities' = ops
                   /\ pc' = IF ops = << >> THEN "post" ELSE "loop"
                   /\ cyc' = [cyc EXCEPT !.fetched = Questions(batch)]
    /\ idx' = 1
    /\ UNCHANGED <<args, out, feed, cfg, client, state, now, is_dry, result, ret>>

\* line 486: the list is exhausted
LoopEnd ==
    /\ pc = "loop"
    /\ idx > Len(opportunities)
    /\ pc' = "post"
    /\ UNCHANGED <<args, out, feed, cfg, client, state, now, opportunities, idx, is_dry, result, ret, cyc>>

\* lines 487-488: the Gate rejected this one
LoopSkip ==
    /\ pc = "loop"
    /\ idx <= Len(opportunities)
    /\ ~opportunities[idx].exec_check.execute
    /\ idx' = idx + 1
    /\ UNCHANGED <<args, out, feed, cfg, client, state, now, pc, opportunities, is_dry, result, ret, cyc>>

\* a loop that goes on to execute whatever can_trade returned
AfterCanTradeAnyway(can) == "exec"

\* where the loop goes after can_trade: lines 491-493
AfterCanTrade(can) == IF can THEN "exec" ELSE "post"

\* lines 490-498: ask the Risk Controller
LoopCanTrade ==
    /\ pc = "loop"
    /\ idx <= Len(opportunities)
    /\ opportunities[idx].exec_check.execute
    /\ LET c == can_trade(state, now)
       IN  /\ AfterCanTrade(c.allowed) = "exec" => state.total_trades < MaxTrades
           /\ state' = c.state
           /\ ret' = Returned(c)
           /\ pc' = AfterCanTrade(c.allowed)
           /\ is_dry' = IF c.allowed THEN is_dry_run(c.state, now) ELSE is_dry
           /\ cyc' = Asked(c)
    /\ UNCHANGED <<args, out, feed, cfg, client, now, opportunities, idx, result>>

\* a loop that feeds back the successful executions only
AfterExecSuccessOnly(r) == IF Truthy(r, "success") THEN "record" ELSE "post"

\* lines 514-516: whatever dict the call returned goes to record_trade
AfterExec(r) == "record"

\* lines 508-512: the execution call, which takes d ticks
Exec ==
    /\ pc = "exec"
    /\ LET opp == opportunities[idx]
           rs == IF opp.analysis.type = "buy_all_yes"
                 THEN execute_buy_all_yes(opp.market, opp.exec_check.position_size, is_dry)
                 ELSE execute_buy_all_no(opp.market, opp.exec_check.position_size, is_dry)
       IN  \E r \in rs :
              IF r = Raised
              THEN \* the exception leaves scan_and_execute for main's except
                   /\ result' = result
                   /\ pc' = AfterException
                   /\ cyc' = [cyc EXCEPT !.dispatched = @ + 1, !.error = TRUE]
              ELSE /\ result' = r
                   /\ pc' = AfterExec(r)
                   /\ cyc' = [cyc EXCEPT !.dispatched = @ + 1]
    /\ \E d \in 0..1 : now + d <= MaxTime /\ now' = now + d
    /\ UNCHANGED <<args, out, feed, cfg, client, state, opportunities, idx, is_dry, ret>>

\* a loop that tries the next opportunity when the trade failed
AfterRecordRetry(r) == IF Truthy(r, "success") THEN "post" ELSE "loop"

\* line 524: one trade per cycle
AfterRecord(r) == "post"

\* an execution counter that counts the successful trades only
CountExecutedIfSuccess(n, r) == IF Truthy(r, "success") THEN n + 1 ELSE n

\* line 517: state.opportunities_executed += 1
CountExecuted(n, r) == n + 1

\* lines 516-524
Record ==
    /\ pc = "record"
    /\ state' = [record_trade(state, result, now) EXCEPT
                    !.opportunities_executed = CountExecuted(@, result)]
    /\ pc' = AfterRecord(result)
    /\ cyc' = [cyc EXCEPT !.recorded = @ + 1]
    /\ UNCHANGED <<args, out, feed, cfg, client, now, opportunities, idx, is_dry, result, ret>>

\* lines 587-589: halted, the halt report is logged
PostHalted ==
    /\ pc = "post"
    /\ state.halted
    /\ pc' = "halted"
    /\ UNCHANGED <<args, out, feed, cfg, client, state, now, opportunities, idx, is_dry, result, ret, cyc>>

\* line 591: the test of 'while state.halted' passes
HaltedPoll ==
    /\ pc = "halted"
    /\ state.halted
    /\ pc' = "sleep"
    /\ UNCHANGED <<args, out, feed, cfg, client, state, now, opportunities, idx, is_dry, result, ret, cyc>>

\* line 592: time.sleep(300) returns
HaltedWake ==
    /\ pc = "sleep"
    /\ \E d \in 0..1 : now + d <= MaxTime /\ now' = now + d
    /\ pc' = "halted"
    /\ UNCHANGED <<args, out, feed, cfg, client, state, opportunities, idx, is_dry, result, ret, cyc>>

\* a transition that starts another dry-run period
DryRunRearmed(until, t) ==
    IF until # << >> /\ t >= until[1] THEN <<t + DRY_RUN_HOURS * Hour>> ELSE until

\* lines 595-601: dry_run_until after the transition check
DryRunTransition(until, t) ==
    IF until # << >> /\ t >= until[1] THEN << >> ELSE until

\* lines 595-603: the dry-run transition, then time.sleep(SCAN_INTERVAL)
PostSleep ==
    /\ pc = "post"
    /\ ~state.halted
    /\ state' = [state EXCEPT !.dry_run_until = DryRunTransition(@, now)]
    /\ \E d \in 0..1 : now + d <= MaxTime /\ now' = now + d
    /\ pc' = "scan"
    /\ opportunities' = << >>
    /\ idx' = 0
    /\ is_dry' = FALSE
    /\ result' = NoResult
    /\ ret' = NoRet
    /\ cyc' = NewCycle
    /\ UNCHANGED <<args, out, feed, cfg, client>>

Next ==
    \/ Scan
    \/ LoopEnd
    \/ LoopSkip
    \/ LoopCanTrade
    \/ Exec
    \/ Record
    \/ PostHalted
    \/ HaltedPoll
    \/ HaltedWake
    \/ PostSleep

Spec == Init /\ [][Next]_vars

\* lines 581-603: what follows the try block of a cycle
MainLoopTail == PostHalted \/ HaltedPoll \/ HaltedWake \/ PostSleep

\* the process keeps running and its sleeps return: the tail of the main
\* loop, when it can take a step, takes it
LiveSpec == Spec /\ WF_vars(MainLoopTail)

----------------------------------------------------------------------------
(* BotState used directly: its methods called in any order, with any result *)

ApiConfigs ==
    { LiveConfig,
      [LiveConfig EXCEPT !.MAX_TRADES_PER_HOUR = 1],
      [LiveConfig EXCEPT !.MAX_TRADES_PER_HOUR = 1, !.BANKROLL = 10050] }

ApiResults ==
    { [success |-> TRUE, expected_profit |-> 80 * Dollar],
      [success |-> TRUE, expected_profit |-> 0 - 5 * Dollar],
      [success |-> FALSE, total_cost |-> 800 * Dollar],
      [success |-> FALSE, total_cost |-> 750 * Dollar],
      [success |-> FALSE, total_cost |-> 700 * Dollar],
      [success |-> FALSE, total_cost |-> Dollar],
      [success |-> FALSE, reason |-> "No CLOB client"] }

ApiInit ==
    /\ cfg \in ApiConfigs
    /\ feed = {}
    /\ client = TRUE
    /\ now = 0
    /\ state = BotStateInit(BANKROLL, 0)
    /\ pc = "scan"
    /\ opportunities = << >>
    /\ idx = 0
    /\ is_dry = FALSE
    /\ result = NoResult
    /\ ret = NoRet
    /\ cyc = NewCycle
    /\ args = NoCall
    /\ out = NoCall

ApiTick ==
    /\ now < MaxTime
    /\ now' = now + 1
    /\ UNCHANGED <<args, out, feed, cfg, client, state, pc, opportunities, idx, is_dry, result, ret, cyc>>

ApiCanTrade ==
    /\ LET c == can_trade(state, now)
       IN  state' = c.state /\ ret' = Returned(c) /\ cyc' = Asked(c)
    /\ UNCHANGED <<args, out, feed, cfg, client, now, pc, opportunities, idx, is_dry, result>>

ApiRecordTrade ==
    /\ state.total_trades < MaxTrades
    /\ \E r \in ApiResults :
          /\ state' = record_trade(state, r, now)
          /\ result' = r
    /\ UNCHANGED <<args, out, feed, cfg, client, now, pc, opportunities, idx, is_dry, ret, cyc>>

ApiNext ==
    \/ ApiTick
    \/ ApiCanTrade
    \/ ApiRecordTrade

ApiSpec == ApiInit /\ [][ApiNext]_vars

----------------------------------------------------------------------------
(* math_engine used directly: its functions called on any arguments *)

\* profit rates, in mills per dollar
Rates == {0 - 10, 0, 2, 5, 10, 30, 100, 800}

Bankrolls == {0, 5 * Dollar, 10050, 500 * Dollar}

\* exec_prob, in percent
ExecProbs == {0, 50, 95, 100}

\* max_frac, in percent
MaxFracs == {0, 10, 46, 100}

MinProfits == {10, 30, 100}

\* gas_cost, in mills
GasCosts == {0, 5, 1500, 1501}

\* values the four diagnostics of one Opportunity can take, raw being its
\* raw profit rate: what analyze_market computes, and the record that
\* scan_and_execute builds at lines 375-386
Diagnostics(raw) ==
    { [bregman_D |-> 0, fw_gap |-> 1, guaranteed_profit |-> 0, alpha_captured |-> 0],
      [bregman_D |-> 0, fw_gap |-> 0, guaranteed_profit |-> raw, alpha_captured |-> 100],
      [bregman_D |-> 2, fw_gap |-> 1, guaranteed_profit |-> 1, alpha_captured |-> 50] }

Opportunity(raw, d) ==
    [raw_profit |-> raw, bregman_D |-> d.bregman_D, fw_gap |-> d.fw_gap,
     guaranteed_profit |-> d.guaranteed_profit, alpha_captured |-> d.alpha_captured]

Opportunities ==
    UNION {{Opportunity(raw, d) : d \in Diagnostics(raw)} : raw \in Rates}

\* the price of one leg, in mills
LegPrices == {1, 166, 167, 329, 330, 333, 334, 337, 340, 500, 501}

PriceVectors == UNION {[1..n -> LegPrices] : n \in 1..MaxLegs}

\* the calls: a function and its arguments
AnalyzeCalls ==
    {[fn |-> "analyze_market", prices |-> prices] : prices \in PriceVectors}

KellyCalls ==
    {[fn |-> "kelly_position", profit_pct |-> p, bankroll |-> b,
      exec_prob |-> e, max_frac |-> m] :
        p \in Rates, b \in Bankrolls, e \in ExecProbs, m \in MaxFracs}

GateCalls ==
    {[fn |-> "should_execute", opp |-> opp, bankroll |-> b, min_profit |-> mp,
      gas_cost |-> g, max_position_pct |-> m] :
        opp \in Opportunities, b \in Bankrolls, mp \in MinProfits,
        g \in GasCosts, m \in MaxFracs}

\* values of DRAWDOWN_LIMIT and MAX_POS_PCT in the environment, in percent:
\* 0, 0.15, 1, 2, 15, 100, 150 (those above 1 are whole numbers)
EnvFractions == {0, 15, 100, 200, 1500, 10000, 15000}

\* values of MIN_PROFIT in the environment, in mills per dollar:
\* 0.01, 1, 2, 15, 1500
EnvRates == {10, 1000, 2000, 15000, 1500000}

StartupCalls ==
    {[fn |-> "startup",
      env |-> [DRAWDOWN_LIMIT |-> d, MAX_POS_PCT |-> m, MIN_PROFIT |-> p]] :
        d \in EnvFractions, m \in EnvFractions, p \in EnvRates}

MathInit ==
    /\ cfg = DefaultConfig
    /\ feed = {}
    /\ client = TRUE
    /\ now = 0
    /\ state = BotStateInit(BANKROLL, 0)
    /\ pc = "scan"
    /\ opportunities = << >>
    /\ idx = 0
    /\ is_dry = FALSE
    /\ result = NoResult
    /\ ret = NoRet
    /\ cyc = NewCycle
    /\ args \in AnalyzeCalls \cup KellyCalls \cup GateCalls \cup StartupCalls
    /\ out = NoCall

Returns(value) == [fn |-> args.fn, value |-> value]

\* the module-level configuration code of bot.py
CallStartup ==
    /\ args.fn = "startup" /\ out = NoCall
    /\ out' = Returns(Startup(args.env))
    /\ UNCHANGED <<args, feed, cfg, client, state, now, pc, opportunities, idx, is_dry, result, ret, cyc>>

CallAnalyze ==
    /\ args.fn = "analyze_market" /\ out = NoCall
    /\ out' = Returns(analyze_market(args.prices))
    /\ UNCHANGED <<args, feed, cfg, client, state, now, pc, opportunities, idx, is_dry, result, ret, cyc>>

CallKelly ==
    /\ args.fn = "kelly_position" /\ out = NoCall
    /\ out' = Returns(kelly_position(args.profit_pct, args.bankroll,
                                     args.exec_prob, args.max_frac))
    /\ UNCHANGED <<args, feed, cfg, client, state, now, pc, opportunities, idx, is_dry, result, ret, cyc>>

CallShouldExecute ==
    /\ args.fn = "should_execute" /\ out = NoCall
    /\ out' = Returns(should_execute(args.opp, args.bankroll, args.min_profit,
                                     args.gas_cost, args.max_position_pct))
    /\ UNCHANGED <<args, feed, cfg, client, state, now, pc, opportunities, idx, is_dry, result, ret, cyc>>

MathNext ==
    \/ CallAnalyze
    \/ CallKelly
    \/ CallShouldExecute
    \/ CallStartup

MathSpec == MathInit /\ [][MathNext]_vars

----------------------------------------------------------------------------
(* Properties *)

\* the drawdown limit is met or exceeded, stated on the fields
Breach(s) ==
    (s.initial_bankroll - s.current_bankroll) * 100 >= DRAWDOWN_LIMIT * s.initial_bankroll

BelowFloor(s) == s.current_bankroll < 10 * Dollar

\* the trades logged in the hour that ends at T
LoggedInWindow(T) ==
    Cardinality({i \in DOMAIN state.trade_log :
                    /\ state.trade_log[i].time > T - Hour
                    /\ state.trade_log[i].time <= T})

Last(q) == q[Len(q)]

\* C1: once halted, the controller stays halted with the same reason, and
\* can_trade keeps denying with that reason, whatever is recorded in between.
HaltIsSticky ==
    [][state.halted =>
         /\ state'.halted
         /\ state'.halt_reason = state.halt_reason
         /\ LET c == can_trade(state', now')
            IN  /\ ~c.allowed
                /\ c.prefix = "HALTED: "
                /\ c.reason = state.halt_reason
                /\ c.state = state']_vars

\* C1 witness: halted, denied as halted, and the bankroll is back above both
\* limits.
HaltedAfterRecovery ==
    /\ state.halted
    /\ ~ret.allowed /\ ret.prefix = "HALTED: " /\ ret.reason = state.halt_reason
    /\ ~Breach(state) /\ ~BelowFloor(state)
    /\ state.trade_log # << >> /\ Last(state.trade_log).success

\* C2: an execution is dispatched only right after can_trade permitted in the
\* same cycle: never while halted, in drawdown breach, at the hourly cap or
\* below the floor, and never after a denial.
DispatchOnlyOnPermit ==
    /\ cyc.dispatched > 0 => cyc.permit
    /\ (cyc.asked /\ ~cyc.permit) => (cyc.dispatched = 0 /\ pc \notin {"exec", "record"})
    /\ pc = "exec" =>
         /\ cyc.permit /\ ret.allowed
         /\ opportunities[idx].exec_check.execute
         /\ ~state.halted
         /\ ~Breach(state)
         /\ LoggedInWindow(now) < MAX_TRADES_PER_HOUR
         /\ ~BelowFloor(state)

\* C2 witness: an execution was dispatched on a permit.
DispatchedOnPermit ==
    pc = "record" /\ cyc.dispatched = 1 /\ cyc.permit /\ ret.allowed

\* C3: a cycle dispatches at most one execution and records at most one
\* trade; after a recorded trade, failed or not, the loop is left.
OneTradePerCycle ==
    /\ cyc.dispatched <= 1
    /\ cyc.recorded <= cyc.dispatched
    /\ cyc.recorded = 1 => pc \in {"post", "halted", "sleep"}

\* C3 witness: the trade of the cycle failed and another Gate-approved
\* opportunity is left in the list.
FailedWithAnotherLeft ==
    /\ pc = "post" /\ cyc.recorded = 1
    /\ ~Truthy(result, "success")
    /\ \E j \in (idx + 1)..Len(opportunities) : opportunities[j].exec_check.execute

\* C4: can_trade on an active controller halts with the drawdown reason
\* exactly when drawdown >= DRAWDOWN_LIMIT; 500 -> 420 at 15% cites 16.0 >= 15.
DrawdownHalts ==
    ~state.halted =>
        LET c == can_trade(state, now)
        IN  /\ Breach(state) =>
                 /\ c.state.halted /\ ~c.allowed
                 /\ c.reason.kind = "Drawdown >=" /\ c.reason.b = DRAWDOWN_LIMIT
                 /\ c.state.halt_reason = c.reason
            /\ ~Breach(state) =>
                 /\ c.reason.kind # "Drawdown >="
                 /\ c.state.halted => c.reason.kind = "Bankroll below $10"
            /\ (state.initial_bankroll = 500 * Dollar
                /\ state.current_bankroll = 420 * Dollar
                /\ DRAWDOWN_LIMIT = 15) =>
                 c.reason = Reason("Drawdown >=", 160, 15)

\* C4 witness: scenario D has happened.
ScenarioDHalted ==
    /\ state.initial_bankroll = 500 * Dollar
    /\ state.current_bankroll = 420 * Dollar
    /\ state.halted
    /\ state.halt_reason = Reason("Drawdown >=", 160, 15)
    /\ ~ret.allowed /\ ret.reason = state.halt_reason

\* C5: no hour (T - Hour, T] holds more than MAX_TRADES_PER_HOUR recorded
\* trades; with a cap of 0 nothing is ever recorded.
HourlyCap ==
    /\ \A T \in 0..now : LoggedInWindow(T) <= MAX_TRADES_PER_HOUR
    /\ MAX_TRADES_PER_HOUR = 0 => (state.total_trades = 0 /\ state.trade_log = << >>)

\* C5 witness: the cap is reached and can_trade denied for it.
CapReached ==
    /\ MAX_TRADES_PER_HOUR >= 1
    /\ LoggedInWindow(now) = MAX_TRADES_PER_HOUR
    /\ cyc.asked /\ ~ret.allowed /\ ret.reason.kind = "Rate limit"

\* C6: a rate-limit denial does not halt, and can_trade permits whenever
\* fewer than MAX_TRADES_PER_HOUR trades were recorded in the last hour,
\* drawdown is below the limit and the bankroll is at least $10.
RateLimitIsTemporary ==
    LET c == can_trade(state, now)
    IN  /\ c.reason.kind = "Rate limit" =>
             /\ ~c.allowed
             /\ ~state.halted /\ ~c.state.halted
             /\ LoggedInWindow(now) >= MAX_TRADES_PER_HOUR
        /\ (/\ ~state.halted
            /\ ~Breach(state)
            /\ ~BelowFloor(state)
            /\ LoggedInWindow(now) < MAX_TRADES_PER_HOUR) => c.allowed

\* C6 witness: denied for the rate earlier, permitted now.
PermittedAfterThrottle ==
    /\ cyc.throttled /\ ret.allowed
    /\ ~state.halted
    /\ state.total_trades >= MAX_TRADES_PER_HOUR

\* C7, as claimed: when a cycle has ended with the drawdown limit met or the
\* bankroll below $10, the controller is halted.
BreachHaltsByCycleEnd ==
    (pc = "scan" /\ (Breach(state) \/ BelowFloor(state))) => state.halted

\* C8, as claimed: a successful record_trade adds max(expected_profit, 0) to
\* total_profit and to current_bankroll, so the bankroll does not decrease.
SuccessAddsClampedProfit ==
    [][state'.successful_trades # state.successful_trades =>
         LET gain == Max(Get(result', "expected_profit", 0), 0)
         IN  /\ state'.successful_trades = state.successful_trades + 1
             /\ state'.total_trades = state.total_trades + 1
             /\ state'.total_profit = state.total_profit + gain
             /\ state'.current_bankroll = state.current_bankroll + gain
             /\ state'.current_bankroll >= state.current_bankroll]_vars

\* C9: a failed record_trade counts one failed trade and books 10% of the
\* result's total_cost as loss; a partial fill is such a failure, with the
\* risk-exposure reason and 10% of the position size lost.
FailedTradeBooksTenth ==
    [][state'.failed_trades # state.failed_trades =>
         LET cost == Get(result, "total_cost", 0)
             loss == (cost * 10) \div 100
             partial == /\ "n_filled" \in DOMAIN result
                        /\ result.n_filled > 0
                        /\ result.n_filled < result.n_orders
         IN  /\ state'.failed_trades = state.failed_trades + 1
             /\ state'.total_trades = state.total_trades + 1
             /\ state'.successful_trades = state.successful_trades
             /\ state'.total_loss = state.total_loss + loss
             /\ state'.current_bankroll = state.current_bankroll - loss
             /\ state'.total_profit = state.total_profit
             /\ ~Last(state'.trade_log).success
             /\ partial =>
                  /\ result.reason = "PARTIAL: RISK EXPOSURE"
                  /\ Last(state'.trade_log).reason = "PARTIAL: RISK EXPOSURE"
                  /\ cost = opportunities[idx].exec_check.position_size
                  /\ cost > 0
             /\ ~partial => Get(result, "reason", "") # "PARTIAL: RISK EXPOSURE"]_vars

\* C9 witness: a partial fill was recorded.
PartialFillRecorded ==
    /\ pc = "post" /\ cyc.recorded = 1
    /\ "n_filled" \in DOMAIN result
    /\ result.n_filled = 1 /\ result.n_orders = 3
    /\ state.failed_trades >= 1
    /\ Last(state.trade_log).reason = "PARTIAL: RISK EXPOSURE"
    /\ state.current_bankroll < state.initial_bankroll

\* C10: every step keeps the logged records as they are; record_trade appends
\* one record and one timestamp; any other step leaves the log alone and can
\* only drop timestamps from the rolling window.
TradeLogAppendOnly ==
    [][/\ Len(state'.trade_log) >= Len(state.trade_log)
       /\ SubSeq(state'.trade_log, 1, Len(state.trade_log)) = state.trade_log
       /\ state'.total_trades # state.total_trades =>
            /\ Len(state'.trade_log) = Len(state.trade_log) + 1
            /\ Last(state'.trade_log).time = now'
            /\ state'.trades_this_hour = Append(state.trades_this_hour, now')
       /\ state'.total_trades = state.total_trades =>
            /\ state'.trade_log = state.trade_log
            /\ Len(state'.trades_this_hour) <= Len(state.trades_this_hour)]_vars

\* C10 witness: a timestamp was pruned from the window and its record is
\* still in the log.
PrunedButLogged ==
    /\ Len(state.trade_log) = 2
    /\ Len(state.trades_this_hour) < Len(state.trade_log)
    /\ state.trade_log[1].time <= now - Hour

\* C11: should_execute never accepts with a position under $1 or with a net
\* profit <= 0, and every rejection carries position_size 0, expected_profit 0
\* and a reason that is not empty.
GateAcceptsOnlyWorthwhile ==
    out.fn = "should_execute" =>
        LET d == out.value
        IN  /\ d.execute => (d.position_size >= Dollar /\ d.expected_profit > 0)
            /\ ~d.execute =>
                 (d.position_size = 0 /\ d.expected_profit = 0 /\ d.reason # "")

\* C11 witness: an acceptance just above the $1 floor, with a gas cost to pay.
AcceptedNearFloor ==
    /\ out.fn = "should_execute"
    /\ out.value.execute
    /\ out.value.position_size < 2 * Dollar
    /\ args.gas_cost > 0

\* the Sizer's answer for the call in args, at the Gate's exec_prob of 0.95
SizeOfCall ==
    kelly_position(args.opp.raw_profit, args.bankroll, 95, args.max_position_pct)

\* C12: the first failing check names the rejection: profit under the
\* threshold before size under $1 before the gas share, and a raw profit equal
\* to min_profit passes check 1.
GateChecksInOrder ==
    out.fn = "should_execute" =>
        LET profit == args.opp.raw_profit
            fails1 == profit < args.min_profit
            fails2 == SizeOfCall < Dollar
            fails3 == 10000 * args.gas_cost > 3 * SizeOfCall * profit
            d == out.value
        IN  /\ fails1 => (~d.execute /\ d.reason = "Profit < min")
            /\ (~fails1 /\ fails2) => (~d.execute /\ d.reason = "Kelly size too small")
            /\ (~fails1 /\ ~fails2 /\ fails3) =>
                 (~d.execute /\ d.reason = "Gas share of profit")
            /\ (fails2 /\ fails3 /\ ~fails1) => d.reason = "Kelly size too small"
            /\ profit = args.min_profit => d.reason # "Profit < min"

\* C12 witness: a call that fails check 1 and check 2, rejected for the profit.
FailsProfitAndSize ==
    /\ out.fn = "should_execute"
    /\ args.opp.raw_profit > 0
    /\ args.opp.raw_profit < args.min_profit
    /\ SizeOfCall < Dollar
    /\ out.value.reason = "Profit < min"

\* C13: past checks 1 and 2, should_execute rejects exactly when gas_cost is
\* more than 30% of position x raw profit; at 30% or less it accepts with
\* net profit = gross - gas_cost.
GasShareDecides ==
    (/\ out.fn = "should_execute"
     /\ args.opp.raw_profit >= args.min_profit
     /\ SizeOfCall >= Dollar) =>
        LET profit == args.opp.raw_profit
            gross == (SizeOfCall * profit) \div 1000
            d == out.value
        IN  /\ ~d.execute <=> 10000 * args.gas_cost > 3 * SizeOfCall * profit
            /\ ~d.execute => d.reason = "Gas share of profit"
            /\ d.execute =>
                 /\ d.position_size = SizeOfCall
                 /\ d.expected_profit = gross - args.gas_cost

\* C13 witness: a gas cost of exactly 30% of the gross profit, accepted.
GasExactlyThirtyPercent ==
    /\ out.fn = "should_execute"
    /\ args.gas_cost > 0
    /\ 10000 * args.gas_cost = 3 * SizeOfCall * args.opp.raw_profit
    /\ out.value.execute
    /\ out.value.expected_profit = 7 * (args.gas_cost \div 3)

\* C14: kelly_position is >= 0, is 0 when the profit rate or the expected
\* value per dollar is <= 0, and does not decrease when the profit rate grows
\* with bankroll, exec_prob and max_frac held fixed.
SizerMonotone ==
    out.fn = "kelly_position" =>
        LET ev == args.exec_prob * args.profit_pct - (100 - args.exec_prob) * 50
        IN  /\ out.value >= 0
            /\ (args.profit_pct <= 0 \/ ev <= 0) => out.value = 0
            /\ \A p2 \in Rates :
                 args.profit_pct <= p2 =>
                    out.value <= kelly_position(p2, args.bankroll, args.exec_prob,
                                                args.max_frac)

\* C14 witness: a size above 0 that a higher profit rate makes strictly
\* larger, below the cap.
SizerGrowsBelowCap ==
    /\ out.fn = "kelly_position"
    /\ out.value > 0
    /\ \E p2 \in Rates :
          LET more == kelly_position(p2, args.bankroll, args.exec_prob, args.max_frac)
          IN  /\ p2 > args.profit_pct
              /\ more > out.value
              /\ more * 100 < args.bankroll * args.max_frac

\* MAX_POSITION_PCT x current_bankroll, while the cycle has not recorded yet
ExposureCap == (state.current_bankroll * MAX_POSITION_PCT) \div 100

\* C15: the Sizer's position is never above max_frac x bankroll and is that
\* cap when the half-scaled fraction exceeds max_frac (bankroll 500, rate
\* 0.10, cap 0.10: $50, net profit 4.995 at gas 0.005); so the total_cost of
\* every dispatched request is <= MAX_POSITION_PCT x current_bankroll.
ExposureCapped ==
    pc \in {"loop", "exec", "record"} =>
        /\ \A i \in DOMAIN opportunities :
              LET o == opportunities[i]
                  p == o.analysis.raw_profit
              IN  /\ o.exec_check.position_size <= ExposureCap
                  /\ (o.exec_check.execute
                      /\ (95 * p - 5 * 50) * 100 > MAX_POSITION_PCT * 200 * p) =>
                        o.exec_check.position_size = ExposureCap
                  /\ (/\ state.current_bankroll = 500 * Dollar
                      /\ MIN_PROFIT = 10 /\ GAS_COST = 5 /\ MAX_POSITION_PCT = 10
                      /\ p = 100) =>
                        /\ o.exec_check.execute
                        /\ o.exec_check.position_size = 50 * Dollar
                        /\ o.exec_check.expected_profit = 4995
        /\ pc = "record" =>
              Get(result, "total_cost", 0) <= ExposureCap

\* C15 witness: scenario C is dispatched at the capped $50.
ScenarioCDispatched ==
    /\ pc = "record"
    /\ state.current_bankroll = 500 * Dollar
    /\ MIN_PROFIT = 10 /\ GAS_COST = 5 /\ MAX_POSITION_PCT = 10
    /\ opportunities[idx].analysis.raw_profit = 100
    /\ opportunities[idx].exec_check.expected_profit = 4995
    /\ Get(result, "total_cost", 0) = 50 * Dollar

\* C16, as claimed: for three or more prices of sum S, analyze_market returns
\* no opportunity iff 0.99 <= S <= 1.01, buy_all_yes iff 0.50 <= S < 0.99 and
\* buy_all_no iff 1.01 < S <= 1.50.
AnalyzerBands ==
    (out.fn = "analyze_market" /\ Len(args.prices) >= 3) =>
        LET S == SumSeq(args.prices)
        IN  /\ out.value.type = "None" <=> (S >= 990 /\ S <= 1010)
            /\ out.value.type = "buy_all_yes" <=> (S < 990 /\ S >= 500)
            /\ out.value.type = "buy_all_no" <=> (S > 1010 /\ S <= 1500)

\* C17, as claimed: a snapshot whose prices sum to more than 1.50 or less
\* than 0.50 is never among the opportunities given to the Gate and is never
\* executed, whichever strategy read it.
ExtremeSumsNeverTraded ==
    /\ \A i \in DOMAIN opportunities :
          LET S == SumSeq(opportunities[i].market.yes_prices)
          IN  S >= 500 /\ S <= 1500
    /\ \A i \in DOMAIN state.trade_log :
          \A x \in Snapshots :
             x.question = state.trade_log[i].market =>
                (SumSeq(x.yes_prices) >= 500 /\ SumSeq(x.yes_prices) <= 1500)

\* C18: should_execute gives the same execute flag, position_size and
\* expected_profit to any two Opportunities of equal raw_profit, whatever
\* their bregman_D, fw_gap, guaranteed_profit and alpha_captured.
DiagnosticsDoNotGate ==
    out.fn = "should_execute" =>
        \A d \in Diagnostics(args.opp.raw_profit) :
            LET other == should_execute(Opportunity(args.opp.raw_profit, d),
                                        args.bankroll, args.min_profit,
                                        args.gas_cost, args.max_position_pct)
            IN  /\ other.execute = out.value.execute
                /\ other.position_size = out.value.position_size
                /\ other.expected_profit = out.value.expected_profit

\* C18 witness: an Opportunity whose guaranteed profit is 0 is accepted.
AcceptedWithoutGuarantee ==
    /\ out.fn = "should_execute"
    /\ args.opp.guaranteed_profit = 0 /\ args.opp.alpha_captured = 0
    /\ out.value.execute

\* b[i] is scanned before b[j]: events before markets, each in fetch order
ScannedBefore(b, i, j) ==
    \/ b[i].source = "event" /\ b[j].source = "market"
    \/ b[i].source = b[j].source /\ i < j

\* C19: the opportunity a cycle attempts is Gate-approved, no Gate-approved
\* opportunity of the cycle has a higher raw profit, and one of equal raw
\* profit was scanned after it.
AttemptsBestApproved ==
    pc = "exec" =>
        /\ opportunities[idx].exec_check.execute
        /\ \A b \in Batches :
              Ranked(b, state.current_bankroll) = opportunities =>
                 \E k \in DOMAIN b :
                    /\ b[k] = opportunities[idx].market
                    /\ \A i \in DOMAIN opportunities :
                          (i # idx /\ opportunities[i].exec_check.execute) =>
                             LET o == opportunities[i]
                                 mine == opportunities[idx].analysis.raw_profit
                             IN  \/ o.analysis.raw_profit < mine
                                 \/ /\ o.analysis.raw_profit = mine
                                    /\ \E j \in DOMAIN b :
                                          b[j] = o.market /\ ScannedBefore(b, k, j)

\* C19 witness: of two approved markets of equal raw profit, the one fetched
\* first is attempted.
FirstFetchedOfTieAttempted ==
    /\ pc = "exec"
    /\ opportunities[idx].market.question = "K4"
    /\ \E i \in DOMAIN opportunities :
          /\ i > idx
          /\ opportunities[i].market.question = "K1"
          /\ opportunities[i].exec_check.execute
          /\ opportunities[i].analysis.raw_profit
                = opportunities[idx].analysis.raw_profit

DryRunTradesSimulated ==
    /\ (pc = "record" /\ is_dry) => "n_filled" \notin DOMAIN result
    /\ (pc = "post" /\ cyc.recorded = 1 /\ is_dry) =>
          /\ Last(state.trade_log).dry_run
          /\ Last(state.trade_log).success

\* the ids of the legs the opportunity needs
NeededIds(opp) ==
    IF opp.analysis.type = "buy_all_yes" THEN opp.market.token_ids_yes
    ELSE opp.market.token_ids_no

MissingIdReasons == {"Missing YES token ID", "Missing NO token ID"}

\* C25: a snapshot without an identifier for a needed leg is never
\* dispatched, never recorded and never takes a slot of the rolling window.
MissingIdsNeverTraded ==
    /\ pc = "exec" => ~HasEmpty(NeededIds(opportunities[idx]))
    /\ \A i \in DOMAIN state.trade_log :
          state.trade_log[i].reason \notin MissingIdReasons

\* C27: without an execution client, a live run dispatches nothing, records
\* no trade and takes no slot of the rolling window.
AnalysisOnlyWithoutClient ==
    (~client /\ ~DRY_RUN) =>
        /\ cyc.dispatched = 0
        /\ state.total_trades = 0 /\ state.failed_trades = 0
        /\ state.trades_this_hour = << >>

\* C22: the dry-run period ends once.  dry_run_until changes only by being
\* cleared at a transition check made at or after it, and stays cleared; the
\* mode never turns from live to dry-run; with DRY_RUN off dry_run_until is
\* never set and every trade is live.
DryRunEndsOnce ==
    /\ [](~DRY_RUN => (/\ state.dry_run_until = << >>
                       /\ ~is_dry_run(state, now)
                       /\ ~is_dry))
    /\ [][/\ is_dry_run(state', now') => is_dry_run(state, now)
          /\ state.dry_run_until = << >> => state'.dry_run_until = << >>
          /\ state'.dry_run_until # state.dry_run_until =>
                /\ pc = "post" /\ pc' = "scan"
                /\ state.dry_run_until # << >>
                /\ now >= state.dry_run_until[1]
                /\ state'.dry_run_until = << >>]_vars

\* C22 witness: started in dry-run, the bot has passed the transition and
\* dispatched a live trade.
LiveTradeAfterDryRun ==
    /\ DRY_RUN /\ state.dry_run_until = << >>
    /\ pc = "record" /\ ~is_dry
    /\ "n_filled" \in DOMAIN result

\* what 1.0 is in the unit of each normalised parameter
EnvOne == [DRAWDOWN_LIMIT |-> 100, MAX_POS_PCT |-> 100, MIN_PROFIT |-> 1000]

Loaded(c) ==
    [DRAWDOWN_LIMIT |-> c.DRAWDOWN_LIMIT, MAX_POS_PCT |-> c.MAX_POSITION_PCT,
     MIN_PROFIT |-> c.MIN_PROFIT]

\* C30: at startup each of DRAWDOWN_LIMIT, MAX_POS_PCT and MIN_PROFIT given
\* above 1 is loaded as exactly one hundredth of it, and one given at or
\* below 1 is loaded unchanged.
StartupNormalizesOnce ==
    out.fn = "startup" =>
        \A k \in DOMAIN EnvOne :
            LET x == args.env[k]
                y == Loaded(out.value)[k]
            IN  /\ x > EnvOne[k] => 100 * y = x
                /\ x <= EnvOne[k] => y = x

\* C30 witness: 15 is loaded as 0.15, 150 as 1.5 and 1 as 1.
WholeNumbersLoaded ==
    /\ out.fn = "startup"
    /\ args.env.DRAWDOWN_LIMIT = 1500 /\ out.value.DRAWDOWN_LIMIT = 15
    /\ args.env.MAX_POS_PCT = 15000 /\ out.value.MAX_POSITION_PCT = 150
    /\ args.env.MIN_PROFIT = 1000 /\ out.value.MIN_PROFIT = 1000

\* C28: every opportunity of a cycle, approved or not, and so every one
\* that reaches can_trade or an execution call, has at least 3 legs, each
\* with a price inside (0, 1); an execution call builds at least 3 orders.
AtLeastThreeLegs ==
    /\ \A i \in DOMAIN opportunities :
          LET prices == opportunities[i].market.yes_prices
          IN  /\ Len(prices) >= 3
              /\ \A k \in DOMAIN prices : prices[k] > 0 /\ prices[k] < 1000
    /\ "n_orders" \in DOMAIN result => result.n_orders >= 3

\* C28 witness: a market of two legs and an event with a leg priced outside
\* (0, 1) were fetched in the cycle that dispatches another snapshot.
ShortSnapshotsSkipped ==
    /\ pc = "exec"
    /\ "K5" \in cyc.fetched /\ "E4" \in cyc.fetched
    /\ Len(opportunities) = 1

\* C29: a snapshot grouped from an event is among the opportunities only
\* if the event, or one of its markets, carries the negRisk flag.
OnlyNegRiskEvents ==
    \A i \in DOMAIN opportunities :
        LET m == opportunities[i].market
        IN  opportunities[i].source = "event" =>
                (m.neg_risk \/ Get(m, "market_neg_risk", FALSE))

\* C29 witness: an event without the flag was fetched and skipped while the
\* event flagged on its markets only is dispatched.
UnflaggedEventSkipped ==
    /\ pc = "exec"
    /\ "E3" \in cyc.fetched
    /\ opportunities[idx].market.question = "E6"
    /\ \A i \in DOMAIN opportunities : opportunities[i].market.question # "E3"

\* C24: a malformed snapshot in the batch does not keep the others from
\* being analyzed: the well-formed event E1, once fetched, is among the
\* opportunities of its cycle.
MalformedSkippedAlone ==
    (pc \in {"loop", "exec", "record", "post"} /\ "E1" \in cyc.fetched) =>
        \E i \in DOMAIN opportunities : opportunities[i].market.question = "E1"

\* C23: once halted, the main loop emits the halt report again after every
\* poll: from the sleep of the polling loop, control comes back to the
\* report of line 588.
HaltReportRepeats == [](pc = "sleep" => <>(pc = "post"))

\* bankroll, counters, cumulative profit and loss, and trade log
Books(s) ==
    [current_bankroll |-> s.current_bankroll, total_trades |-> s.total_trades,
     successful_trades |-> s.successful_trades, failed_trades |-> s.failed_trades,
     total_profit |-> s.total_profit, total_loss |-> s.total_loss,
     trade_log |-> s.trade_log]

\* C26: a cycle that raised is left for the end of the cycle with no trade
\* recorded, and while not halted the next cycle eventually starts; a cycle
\* records at most once; every step either leaves the books as they are,
\* adding no entry to the rolling window, or is one whole record_trade.
CycleSurvivesException ==
    /\ [](cyc.recorded <= 1 /\ (cyc.error => cyc.recorded = 0))
    /\ [][\/ /\ Books(state') = Books(state)
             /\ state'.trades_this_hour
                   \in {state.trades_this_hour, PrunedWindow(state, now)}
          \/ /\ pc = "record" /\ cyc'.recorded = cyc.recorded + 1
             /\ Books(state') = Books(record_trade(state, result, now))
             /\ state'.trades_this_hour = Append(state.trades_this_hour, now)]_vars
    /\ (cyc.error /\ ~state.halted) ~> (pc = "scan")

\* C26 witness: after a cycle that recorded a trade, a later cycle raised in
\* the execution call, and its books are those of the one trade.
RaisedAfterDispatch ==
    /\ cyc.error /\ cyc.dispatched = 1 /\ cyc.recorded = 0
    /\ state.total_trades = 1 /\ Len(state.trade_log) = 1

\* the timestamps of the rolling window that lie in the hour ending at t
InWindow(s, t) ==
    Cardinality({i \in DOMAIN s.trades_this_hour : s.trades_this_hour[i] > t - Hour})

WindowFull(s, t) == InWindow(s, t) >= MAX_TRADES_PER_HOUR

\* C31: can_trade checks halted, then drawdown, then the hourly rate, then
\* the bankroll floor.  Called in any reachable state: halted, it denies with
\* the stored reason; active with the drawdown limit met, it halts with the
\* drawdown reason whatever the window and the bankroll; active below the
\* limit with the cap reached, it denies with the rate-limit reason and does
\* not halt even below $10; it halts for the floor only when the three
\* earlier checks pass.
CanTradeChecksInOrder ==
    LET c == can_trade(state, now)
        floor == ~state.halted /\ c.reason.kind = "Bankroll below $10"
    IN  /\ ~c.allowed => c.reason.kind # "OK"
        /\ state.halted =>
              (~c.allowed /\ c.prefix = "HALTED: " /\ c.reason = state.halt_reason)
        /\ (~state.halted /\ Breach(state)) =>
              (~c.allowed /\ c.state.halted /\ c.reason.kind = "Drawdown >="
               /\ c.state.halt_reason = c.reason)
        /\ (~state.halted /\ ~Breach(state) /\ WindowFull(state, now)) =>
              (~c.allowed /\ ~c.state.halted /\ c.reason.kind = "Rate limit")
        /\ floor => (/\ ~Breach(state) /\ ~WindowFull(state, now)
                     /\ BelowFloor(state) /\ c.state.halted /\ ~c.allowed)
        /\ (~state.halted /\ ~Breach(state) /\ ~WindowFull(state, now)
            /\ BelowFloor(state)) => floor

\* C31 witness: can_trade has denied for the rate limit, and left the
\* controller active, with the bankroll below $10.
RateLimitBeforeFloor ==
    /\ cyc.asked /\ ~ret.allowed /\ ret.reason.kind = "Rate limit"
    /\ ~state.halted /\ ~Breach(state)
    /\ BelowFloor(state) /\ WindowFull(state, now)

\* C32: orders are submitted to the gateway only after the end of the
\* dry-run period has been announced, that is after dry_run_until was
\* cleared at the end of an earlier cycle.
LiveOnlyAfterAnnouncement ==
    (pc = "record" /\ "n_filled" \in DOMAIN result) => state.dry_run_until = << >>

\* C33: total_trades = successful_trades + failed_trades = the length of the
\* trade log = opportunities_executed, and the rolling window holds at most
\* total_trades timestamps.
CountersConsistent ==
    /\ state.total_trades = state.successful_trades + state.failed_trades
    /\ state.total_trades = Len(state.trade_log)
    /\ state.total_trades = state.opportunities_executed
    /\ Len(state.trades_this_hour) <= state.total_trades
    /\ state.successful_trades
          = Cardinality({i \in DOMAIN state.trade_log : state.trade_log[i].success})

\* C33 witness: one successful and one failed trade are recorded, and the
\* window has been pruned below the number of trades.
CountedAfterPruning ==
    /\ state.successful_trades = 1 /\ state.failed_trades = 1
    /\ Len(state.trade_log) = 2
    /\ Len(state.trades_this_hour) < 2

\* C34: through the main loop, the change of the bankroll is the cumulative
\* profit less the cumulative loss, the net P&L of the status line.
BankrollIsNetPnL ==
    state.current_bankroll - state.initial_bankroll
        = state.total_profit - state.total_loss

\* C34 witness: a successful purchase of every NO and a failed trade with a
\* cost are both in the books.
ProfitAndLossBooked ==
    /\ state.total_profit > 0 /\ state.total_loss > 0
    /\ \E i \in DOMAIN state.trade_log :
          state.trade_log[i].success /\ state.trade_log[i].type = "buy_all_no"

\* C35: a cycle whose execution call submitted leg orders (its result
\* counts the fills) records that result exactly once before it ends: the
\* call is followed by record_trade at once, and from then to the end of the
\* cycle the latest record is that of this result.
SubmittedIsRecorded ==
    "n_filled" \in DOMAIN result =>
        /\ cyc.dispatched = 1 /\ ~cyc.error
        /\ pc \in {"record", "post", "halted", "sleep"}
        /\ pc = "record" => cyc.recorded = 0
        /\ pc # "record" =>
              /\ cyc.recorded = 1
              /\ state.trade_log # << >>
              /\ \E t \in 0..now : Last(state.trade_log) = TradeRecord(result, t)
              /\ state.trades_this_hour # << >>
              /\ Last(state.trades_this_hour) = Last(state.trade_log).time

\* C35 witness: two of three leg orders were filled, and the cycle ended
\* with the failure in the books.
PartialFillFedBack ==
    /\ pc = "post" /\ cyc.recorded = 1
    /\ "n_filled" \in DOMAIN result /\ result.n_filled = 2 /\ result.n_orders = 3
    /\ state.failed_trades >= 1 /\ state.total_loss > 0
    /\ Len(state.trades_this_hour) >= 1

\* C36: through the main loop the bankroll stays positive: a step that
\* lowers it takes at most a tenth of MAX_POSITION_PCT x the bankroll, and
\* no other step lowers it.
BankrollStaysPositive ==
    /\ [](state.current_bankroll > 0)
    /\ [][state'.current_bankroll < state.current_bankroll =>
             /\ state'.failed_trades = state.failed_trades + 1
             /\ 1000 * (state.current_bankroll - state'.current_bankroll)
                   <= MAX_POSITION_PCT * state.current_bankroll
             /\ state'.current_bankroll > 0]_vars

\* C36 witness: with the whole bankroll allowed as a position, a failed
\* trade has lowered the bankroll.
LossAtFullExposure ==
    /\ MAX_POSITION_PCT = 100
    /\ state.failed_trades >= 1 /\ state.total_loss > 0
    /\ state.current_bankroll < state.initial_bankroll

====
